---- MODULE Spec2Model ----
(***************************************************************************)
(* A model of the TZX container reader: NewReader / ReadBlocks /           *)
(* readDataBlock of src/tzx/read.go and the block decode routines of       *)
(* src/spectrum/tzx/blocks, src/tape and src/unnamed.                      *)
(*                                                                         *)
(* The input is a finite byte sequence `stream` fixed in the initial       *)
(* state; `pos` is the number of bytes the buffered reader has handed out. *)
(* Spec drives the container reader over a whole file; SpecDecode calls    *)
(* one block decode routine directly on a buffer.                          *)
(***************************************************************************)
EXTENDS Integers, Sequences, FiniteSets, TLC

VARIABLES stream, pos, pc, header, err, blocks, archive, tags, ret

vars == <<stream, pos, pc, header, err, blocks, archive, tags, ret>>

(* ------------------------------ bounds -------------------------------- *)

\* longest body enumerated byte by byte over BodyBytes
MaxLen == 3
\* most chunks (whole blocks) concatenated into a structured body
MaxBlocks == 2
\* longest payload that follows a turbo block's length field in a buffer
MaxPayload == 2

(* ------------------------- program constants -------------------------- *)

HeaderSize == 10
supportedMajorVersion == 1
HeaderTerminator == 26
TurboSpeedDataId == 17
GroupStartId == 33
GroupEndId == 34
LoopStartId == 36
LoopEndId == 37
StopTapeWhen48kModeId == 42
SetSignalLevelId == 43
ArchiveInfoId == 50

\* "ZXTape!"
ZXTape == <<90, 88, 84, 97, 112, 101, 33>>

Nil == "nil"

Min(a, b) == IF a < b THEN a ELSE b

(* ----------------------- primitive field reader ----------------------- *)

Avail(s, p) == Len(s) - p

\* n raw bytes; fewer when the input ends first, and then ok is FALSE
ReadBytes(s, p, n) ==
    LET k == Min(n, Avail(s, p))
    IN  [val |-> SubSeq(s, p + 1, p + k), pos |-> p + k, ok |-> k = n]

RECURSIVE LittleEndian(_)
LittleEndian(bs) ==
    IF bs = <<>> THEN 0 ELSE Head(bs) + 256 * LittleEndian(Tail(bs))

ReadByte(s, p) ==
    LET r == ReadBytes(s, p, 1)
    IN  [val |-> IF r.ok THEN r.val[1] ELSE 0, pos |-> r.pos, ok |-> r.ok]

ReadShort(s, p) ==
    LET r == ReadBytes(s, p, 2)
    IN  [val |-> IF r.ok THEN LittleEndian(r.val) ELSE 0, pos |-> r.pos, ok |-> r.ok]

ReadLong(s, p) ==
    LET r == ReadBytes(s, p, 4)
    IN  [val |-> IF r.ok THEN LittleEndian(r.val) ELSE 0, pos |-> r.pos, ok |-> r.ok]

\* four bytes, least significant first, as a 32-bit value
BytesToLong(bs) == LittleEndian(SubSeq(bs, 1, Min(4, Len(bs))))

(* --------------------------- block decoders --------------------------- *)
(* Each takes the input and the cursor and gives the record it fills, the  *)
(* cursor it leaves, the error it returns (Nil when it returns none, or    *)
(* has no error result) and `full`: whether every read it made found the   *)
(* bytes it asked for.                                                     *)

GroupEndRead(s, p) ==
    [blk |-> [Id |-> GroupEndId], pos |-> p, err |-> Nil, full |-> TRUE]

\* LoopEndRead taking one byte from the reader
LoopEndReadOneByte(s, p) ==
    [blk |-> [Id |-> LoopEndId], pos |-> ReadByte(s, p).pos, err |-> Nil, full |-> TRUE]

LoopEndRead(s, p) ==
    [blk |-> [Id |-> LoopEndId], pos |-> p, err |-> Nil, full |-> TRUE]

GroupStartRead(s, p) ==
    LET len  == ReadByte(s, p)
        name == ReadBytes(s, len.pos, len.val)
    IN  [blk  |-> [Id |-> GroupStartId, Length |-> len.val, GroupName |-> name.val],
         pos  |-> name.pos,
         err  |-> Nil,
         full |-> len.ok /\ name.ok]

LoopStartRead(s, p) ==
    LET n == ReadShort(s, p)
    IN  [blk  |-> [Id |-> LoopStartId, RepetitionCount |-> n.val],
         pos  |-> n.pos,
         err  |-> Nil,
         full |-> n.ok]

StopTapeWhen48kModeRead(s, p) ==
    LET len == ReadLong(s, p)
    IN  [blk  |-> [Id |-> StopTapeWhen48kModeId, Length |-> len.val],
         pos  |-> len.pos,
         err  |-> Nil,
         full |-> len.ok]

SetSignalLevelProcess(s, p) ==
    LET len == ReadLong(s, p)
        lvl == ReadByte(s, len.pos)
    IN  [blk  |-> [Id |-> SetSignalLevelId, Length |-> len.val, SignalLevel |-> lvl.val],
         pos  |-> lvl.pos,
         err  |-> Nil,
         full |-> len.ok /\ lvl.ok]

\* ReadLength3 with the zero byte put in front of the three instead of after
ReadLength3ZeroFirst(s, p) ==
    LET r == ReadBytes(s, p, 3)
    IN  [val |-> BytesToLong(<<0>> \o r.val), pos |-> r.pos, ok |-> r.ok]

\* the 3-byte length: three bytes read, a fourth (zero) appended, then the
\* four taken as a little-endian 32-bit value
ReadLength3(s, p) ==
    LET r == ReadBytes(s, p, 3)
    IN  [val |-> BytesToLong(r.val \o <<0>>), pos |-> r.pos, ok |-> r.ok]

\* the zero value of blocks.TurboSpeedData (DataBlock nil, shown as <<>>)
ZeroTurboSpeedData ==
    [Id |-> TurboSpeedDataId, BlockID |-> 0,
     PilotPulse |-> 0, SyncFirstPulse |-> 0, SyncSecondPulse |-> 0,
     ZeroBitPulse |-> 0, OneBitPulse |-> 0, PilotTone |-> 0,
     UsedBits |-> 0, Pause |-> 0, Length |-> 0, DataBlock |-> <<>>]

\* The cursor after `n` more bytes were asked for from cursor p, by one read
\* or by several in a row: each read starts where the one before it ended.
After(s, p, n) == Min(p + n, Len(s))

\* blocks.TurboSpeedData.Read after the block ID test: the fields, the
\* 3-byte length and the payload; `id` is the read of the block ID byte
TurboSpeedDataFields(s, p, id) ==
    LET pilot == ReadShort(s, After(s, p, 1))
        sync1 == ReadShort(s, After(s, p, 3))
        sync2 == ReadShort(s, After(s, p, 5))
        zero  == ReadShort(s, After(s, p, 7))
        one   == ReadShort(s, After(s, p, 9))
        tone  == ReadShort(s, After(s, p, 11))
        used  == ReadByte(s, After(s, p, 13))
        pause == ReadShort(s, After(s, p, 14))
        len   == ReadLength3(s, After(s, p, 16))
        data  == ReadBytes(s, After(s, p, 19), len.val)
    IN  [blk  |-> [Id |-> TurboSpeedDataId, BlockID |-> id.val,
                   PilotPulse |-> pilot.val, SyncFirstPulse |-> sync1.val,
                   SyncSecondPulse |-> sync2.val, ZeroBitPulse |-> zero.val,
                   OneBitPulse |-> one.val, PilotTone |-> tone.val,
                   UsedBits |-> used.val, Pause |-> pause.val,
                   Length |-> len.val,
                   \* the bytes read into `data` are dropped
                   DataBlock |-> <<>>],
         pos  |-> data.pos,
         err  |-> IF data.ok THEN Nil ELSE "EOF",
         full |-> id.ok /\ len.ok /\ data.ok]

\* TurboSpeedDataRead without the block ID test
TurboSpeedDataReadUnchecked(s, p) ==
    TurboSpeedDataFields(s, p, ReadByte(s, p))

\* blocks.TurboSpeedData.Read
TurboSpeedDataRead(s, p) ==
    LET id == ReadByte(s, p)
    IN  IF id.val # TurboSpeedDataId
        THEN [blk  |-> [ZeroTurboSpeedData EXCEPT !.BlockID = id.val],
              pos  |-> id.pos,
              err  |-> "expected block ID",
              full |-> id.ok]
        ELSE TurboSpeedDataFields(s, p, id)

\* tape.TurboSpeedData.Process (the older decode routine of the same block)
TurboSpeedDataProcess(s, p) ==
    LET pilot == ReadShort(s, p)
        sync1 == ReadShort(s, After(s, p, 2))
        sync2 == ReadShort(s, After(s, p, 4))
        zero  == ReadShort(s, After(s, p, 6))
        tone  == ReadShort(s, After(s, p, 8))
        used  == ReadByte(s, After(s, p, 10))
        pause == ReadShort(s, After(s, p, 11))
        len   == ReadShort(s, After(s, p, 13))
        spare == ReadByte(s, After(s, p, 15))
        data  == ReadBytes(s, After(s, p, 16), len.val)
    IN  [blk  |-> [Id |-> TurboSpeedDataId,
                   PilotPulse |-> pilot.val, SyncFirstPulse |-> sync1.val,
                   SyncSecondPulse |-> sync2.val, ZeroBitPulse |-> zero.val,
                   OneBitPulse |-> 0, PilotTone |-> tone.val,
                   UsedBits |-> used.val, Pause |-> pause.val,
                   Length |-> len.val, LengthSpareByte |-> spare.val,
                   \* the bytes read are dropped
                   Data |-> <<>>],
         pos  |-> data.pos,
         err  |-> Nil,
         full |-> spare.ok /\ data.ok]

(* ------------------------------ dispatch ------------------------------ *)

\* the tags readDataBlock's switch has a case for
KnownIds ==
    {16, 17, 18, 19, 20, 21, 24, 25,
     32, 33, 34, 35, 36, 37, 38, 39, 40,
     42, 43, 48, 49, 50, 51, 53, 90}

\* the tags whose decode routine is part of the sources at hand
DecodableIds ==
    {TurboSpeedDataId, GroupStartId, GroupEndId, LoopStartId, LoopEndId,
     StopTapeWhen48kModeId, SetSignalLevelId}

\* the block's own decode routine, run on the reader. The inputs hold no tag
\* of KnownIds outside DecodableIds. For tag 0x11 the routine is
\* blocks.TurboSpeedData.Read, which reads a block ID byte of its own after
\* the tag byte ReadBlocks has already taken.
BlockRead(id, s, p) ==
    CASE id = TurboSpeedDataId      -> TurboSpeedDataRead(s, p)
      [] id = GroupStartId          -> GroupStartRead(s, p)
      [] id = GroupEndId            -> GroupEndRead(s, p)
      [] id = LoopStartId           -> LoopStartRead(s, p)
      [] id = LoopEndId             -> LoopEndRead(s, p)
      [] id = StopTapeWhen48kModeId -> StopTapeWhen48kModeRead(s, p)
      [] id = SetSignalLevelId      -> SetSignalLevelProcess(s, p)

NoBlock == [Id |-> 0]

\* readDataBlock: (block, error) and the cursor it leaves. Whatever the
\* block's Read returns is dropped: the error is nil for every known tag.
readDataBlock(id, s, p) ==
    IF id \notin KnownIds
    THEN [blk |-> NoBlock, pos |-> p, err |-> "deprecated/not supported", full |-> TRUE]
    ELSE IF id = ArchiveInfoId
    THEN [blk |-> NoBlock, pos |-> p, err |-> Nil, full |-> TRUE]
    ELSE [BlockRead(id, s, p) EXCEPT !.err = Nil]

\* blocks.ArchiveInfo.Read: how many bytes it takes is not known here, so
\* every amount the input still holds is possible
ArchiveInfoRead(s, p) == 0 .. Avail(s, p)

(* ------------------------------- header ------------------------------- *)

ZeroHeader ==
    [Signature |-> <<0, 0, 0, 0, 0, 0, 0>>, Terminator |-> 0,
     MajorVersion |-> 0, MinorVersion |-> 0]

\* readHeader: binary.Read of the ten header bytes, then the signature test
readHeader(s) ==
    LET r == ReadBytes(s, 0, HeaderSize)
    IN  IF ~r.ok
        THEN [header |-> ZeroHeader, pos |-> r.pos, err |-> "binary.Read failed"]
        ELSE LET h == [Signature    |-> SubSeq(r.val, 1, 7),
                       Terminator   |-> r.val[8],
                       MajorVersion |-> r.val[9],
                       MinorVersion |-> r.val[10]]
             IN  [header |-> h, pos |-> r.pos,
                  err |-> IF h.Signature # ZXTape
                          THEN "TZX file is not in correct format"
                          ELSE Nil]

\* header.valid. errors.Wrapf of github.com/pkg/errors gives nil when the
\* error it is asked to wrap is nil.
valid(h) ==
    LET Wrapf(e, msg) == IF e = Nil THEN Nil ELSE msg
        e0 == Nil
        e1 == IF h.Signature # ZXTape
              THEN Wrapf(e0, "Incorrect signature") ELSE e0
        e2 == IF h.Terminator # HeaderTerminator
              THEN Wrapf(e1, "Incorrect terminator") ELSE e1
        e3 == IF h.MajorVersion # supportedMajorVersion
              THEN Wrapf(e2, "Invalid version") ELSE e2
    IN  e3

(* ------------------------------- inputs ------------------------------- *)

SeqsUpTo(S, n) == UNION {[1 .. k -> S] : k \in 0 .. n}

Prefixes(s) == {SubSeq(s, 1, n) : n \in 0 .. Len(s)}

\* pilot 2168, sync 667 and 735, zero 855, one 1710, tone 8063, used bits 8,
\* pause 1000: the values of the ROM saving routines
RomTimings == <<120, 8, 155, 2, 223, 2, 87, 3, 174, 6, 127, 31, 8, 232, 3>>
\* pilot 1, sync 2 and 3, zero 4, one 5, tone 6, used bits 7, pause 0
SmallTimings == <<1, 0, 2, 0, 3, 0, 4, 0, 5, 0, 6, 0, 7, 0, 0>>

GoodHeader == ZXTape \o <<HeaderTerminator, supportedMajorVersion, 20>>

Headers ==
    {sig \o <<term, major, minor>> :
        sig \in {ZXTape, <<90, 88, 84, 97, 112, 101, 63>>},
        term \in {HeaderTerminator, 0},
        major \in {0, 1, 2},
        minor \in {10, 20}}

\* tags with a decode routine, the archive tag, tags without a case (0x16,
\* and 0 and 1, which also serve as field bytes)
BodyBytes == DecodableIds \cup {ArchiveInfoId, 22, 0, 1}

\* whole blocks as they appear in a file
Chunks ==
    { <<GroupEndId>>, <<LoopEndId>>,
      <<GroupStartId, 2, 65, 66>>,
      <<LoopStartId, 2, 0>>,
      <<StopTapeWhen48kModeId, 0, 0, 0, 0>>,
      <<StopTapeWhen48kModeId, 3, 0, 0, 0, GroupEndId, GroupEndId, GroupEndId>>,
      <<SetSignalLevelId, 1, 0, 0, 0, 1>>,
      <<SetSignalLevelId, 0, 0, 0, 0>>,
      <<TurboSpeedDataId>> \o RomTimings \o <<2, 0, 0, 170, 85>>,
      <<TurboSpeedDataId, TurboSpeedDataId>> \o SmallTimings \o <<2, 0, 0, 170, 85>>,
      <<ArchiveInfoId, 1, 0>>,
      <<22>> }

RECURSIVE ChunkSeqs(_)
ChunkSeqs(n) ==
    IF n = 0 THEN {<<>>}
    ELSE LET prev == ChunkSeqs(n - 1)
         IN  prev \cup {c \o x : c \in Chunks, x \in prev}

Bodies ==
    SeqsUpTo(BodyBytes, MaxLen) \cup UNION {Prefixes(b) : b \in ChunkSeqs(MaxBlocks)}

Files ==
    {GoodHeader \o b : b \in Bodies}
        \cup {h \o b : h \in Headers, b \in {<<>>, <<GroupEndId>>, <<22>>}}
        \cup Prefixes(GoodHeader)

(* -------------------------- container reader -------------------------- *)

NoRet == [routine |-> "none", blk |-> NoBlock, err |-> Nil, full |-> TRUE]

Init ==
    /\ stream \in Files
    /\ pos = 0
    /\ pc = "start"
    /\ header = ZeroHeader
    /\ err = Nil
    /\ blocks = <<>>
    /\ archive = [present |-> FALSE, at |-> 0]
    /\ tags = <<>>
    /\ ret = NoRet

\* NewReader: readHeader, then header.valid; a Reader only when both give nil
NewReader ==
    /\ pc = "start"
    /\ LET rh == readHeader(stream)
           e  == IF rh.err # Nil THEN rh.err ELSE valid(rh.header)
       IN  /\ header' = rh.header
           /\ pos' = rh.pos
           /\ err' = e
           /\ pc' = IF e # Nil THEN "rejected" ELSE "ready"
    /\ UNCHANGED <<stream, blocks, archive, tags, ret>>

\* ReadBlocks, one turn of its loop per step. `tags` records each tag byte the
\* loop read and the cursor right after it.

\* ReadBlocksEOF that goes round the loop again instead of leaving it
ReadBlocksEOFContinues ==
    /\ pc = "ready"
    /\ Avail(stream, pos) = 0
    /\ UNCHANGED vars

\* ReadByte gives io.EOF: the loop ends and ReadBlocks returns nil. (The
\* input is a finite byte sequence: ReadByte gives no other error.)
ReadBlocksEOF ==
    /\ pc = "ready"
    /\ Avail(stream, pos) = 0
    /\ pc' = "done"
    /\ err' = Nil
    /\ UNCHANGED <<stream, pos, header, blocks, archive, tags, ret>>

\* ReadBlocksUnsupported with the error dropped: the tag is skipped and the
\* loop goes on
ReadBlocksUnsupportedSkips ==
    /\ pc = "ready"
    /\ Avail(stream, pos) > 0
    /\ \E id \in {ReadByte(stream, pos)} :
       \E r \in {readDataBlock(id.val, stream, id.pos)} :
           /\ r.err # Nil
           /\ pos' = r.pos
           /\ tags' = Append(tags, [id |-> id.val, at |-> id.pos])
    /\ UNCHANGED <<stream, pc, header, err, blocks, archive, ret>>

\* readDataBlock returns an error: ReadBlocks returns it, wrapped
ReadBlocksUnsupported ==
    /\ pc = "ready"
    /\ Avail(stream, pos) > 0
    /\ \E id \in {ReadByte(stream, pos)} :
       \E r \in {readDataBlock(id.val, stream, id.pos)} :
           /\ r.err # Nil
           /\ pos' = r.pos
           /\ tags' = Append(tags, [id |-> id.val, at |-> id.pos])
           /\ err' = "Unable to complete reading TZX blocks"
           /\ pc' = "failed"
    /\ UNCHANGED <<stream, header, blocks, archive, ret>>

\* ReadBlocksArchive that also appends what readDataBlock returned
ReadBlocksArchiveAppends ==
    /\ pc = "ready"
    /\ Avail(stream, pos) > 0
    /\ \E id \in {ReadByte(stream, pos)} :
       \E r \in {readDataBlock(id.val, stream, id.pos)} :
           /\ r.err = Nil
           /\ id.val = ArchiveInfoId
           /\ \E n \in ArchiveInfoRead(stream, r.pos) : pos' = r.pos + n
           /\ archive' = [present |-> TRUE, at |-> r.pos]
           /\ blocks' = Append(blocks, [Id |-> ArchiveInfoId])
           /\ tags' = Append(tags, [id |-> id.val, at |-> id.pos])
    /\ UNCHANGED <<stream, pc, header, err, ret>>

\* tag 0x32: a fresh ArchiveInfo is read into the archive field
ReadBlocksArchive ==
    /\ pc = "ready"
    /\ Avail(stream, pos) > 0
    /\ \E id \in {ReadByte(stream, pos)} :
       \E r \in {readDataBlock(id.val, stream, id.pos)} :
           /\ r.err = Nil
           /\ id.val = ArchiveInfoId
           /\ \E n \in ArchiveInfoRead(stream, r.pos) : pos' = r.pos + n
           /\ archive' = [present |-> TRUE, at |-> r.pos]
           /\ tags' = Append(tags, [id |-> id.val, at |-> id.pos])
    /\ UNCHANGED <<stream, pc, header, err, blocks, ret>>

\* ReadBlocksAppend putting the new block in front of the sequence
ReadBlocksAppendInFront ==
    /\ pc = "ready"
    /\ Avail(stream, pos) > 0
    /\ \E id \in {ReadByte(stream, pos)} :
       \E r \in {readDataBlock(id.val, stream, id.pos)} :
           /\ r.err = Nil
           /\ id.val # ArchiveInfoId
           /\ pos' = r.pos
           /\ blocks' = <<r.blk>> \o blocks
           /\ tags' = Append(tags, [id |-> id.val, at |-> id.pos])
    /\ UNCHANGED <<stream, pc, header, err, archive, ret>>

\* any other known tag: the block readDataBlock returned is appended
ReadBlocksAppend ==
    /\ pc = "ready"
    /\ Avail(stream, pos) > 0
    /\ \E id \in {ReadByte(stream, pos)} :
       \E r \in {readDataBlock(id.val, stream, id.pos)} :
           /\ r.err = Nil
           /\ id.val # ArchiveInfoId
           /\ pos' = r.pos
           /\ blocks' = Append(blocks, r.blk)
           /\ tags' = Append(tags, [id |-> id.val, at |-> id.pos])
    /\ UNCHANGED <<stream, pc, header, err, archive, ret>>

Next ==
    \/ NewReader
    \/ ReadBlocksEOF
    \/ ReadBlocksUnsupported
    \/ ReadBlocksArchive
    \/ ReadBlocksAppend

Spec == Init /\ [][Next]_vars

\* Files for the runs to completion: whole blocks one after another, one
\* block cut short at every length, a few bytes of anything, and the headers.
FairFiles ==
    {GoodHeader \o b : b \in ChunkSeqs(MaxBlocks)
                            \cup UNION {Prefixes(c) : c \in Chunks}
                            \cup SeqsUpTo(BodyBytes, 2)}
        \cup {h \o b : h \in Headers, b \in {<<>>, <<GroupEndId>>}}
        \cup Prefixes(GoodHeader)

InitFair ==
    /\ stream \in FairFiles
    /\ pos = 0
    /\ pc = "start"
    /\ header = ZeroHeader
    /\ err = Nil
    /\ blocks = <<>>
    /\ archive = [present |-> FALSE, at |-> 0]
    /\ tags = <<>>
    /\ ret = NoRet

\* NewReader and ReadBlocks are one sequential program: while a step of it
\* is possible, it takes one.
SpecFair == InitFair /\ [][Next]_vars /\ WF_vars(Next)

(* ------------------- decode routines called directly ------------------ *)
(* SpecDecode: the caller has positioned the reader at a buffer and calls  *)
(* one decode routine; pc names the routine, then is "ret".                *)

LengthBytes == {0, 1, 2, 16, 255}

Payloads == SeqsUpTo({170, 85}, MaxPayload)

\* the layout after the tag: timings, 3-byte length, payload
TurboBodies ==
    {f \o <<b0, b1, b2>> \o d :
        f \in {RomTimings, SmallTimings},
        b0 \in LengthBytes, b1 \in LengthBytes, b2 \in LengthBytes,
        d \in Payloads}

\* blocks.TurboSpeedData.Read starts at the block ID byte
TurboReadBuffers ==
    {<<a>> \o b : a \in {TurboSpeedDataId, 16, 0, GroupEndId}, b \in TurboBodies}
        \cup Prefixes(<<TurboSpeedDataId>> \o RomTimings \o <<2, 0, 0, 170, 85>>)

\* tape.TurboSpeedData.Process starts after the tag
TurboProcessBuffers ==
    TurboBodies \cup Prefixes(RomTimings \o <<2, 0, 0, 170, 85>>)

\* a 4-byte length L and what follows it
ExtensionBuffers ==
    {<<l, 0, 0, 0>> \o r :
        l \in 0 .. MaxPayload + 1, r \in SeqsUpTo({0, 1, GroupEndId}, MaxLen)}
        \cup Prefixes(<<3, 0, 0>>)

PlainBuffers == SeqsUpTo({0, 2, GroupEndId, LoopEndId}, MaxLen)

DecodeBuffers(routine) ==
    CASE routine = "TurboSpeedDataRead"      -> TurboReadBuffers
      [] routine = "TurboSpeedDataProcess"   -> TurboProcessBuffers
      [] routine = "StopTapeWhen48kModeRead" -> ExtensionBuffers
      [] routine = "SetSignalLevelProcess"   -> ExtensionBuffers
      [] OTHER                               -> PlainBuffers

Routines ==
    {"TurboSpeedDataRead", "TurboSpeedDataProcess", "StopTapeWhen48kModeRead",
     "SetSignalLevelProcess", "GroupStartRead", "GroupEndRead",
     "LoopStartRead", "LoopEndRead"}

InitDecode ==
    /\ pc \in Routines
    /\ stream \in DecodeBuffers(pc)
    /\ pos = 0
    /\ header = ZeroHeader
    /\ err = Nil
    /\ blocks = <<>>
    /\ archive = [present |-> FALSE, at |-> 0]
    /\ tags = <<>>
    /\ ret = NoRet

Return(routine, r) ==
    /\ pc = routine
    /\ ret' = [routine |-> routine, blk |-> r.blk, err |-> r.err, full |-> r.full]
    /\ pos' = r.pos
    /\ pc' = "ret"
    /\ UNCHANGED <<stream, header, err, blocks, archive, tags>>

CallTurboSpeedDataRead ==
    Return("TurboSpeedDataRead", TurboSpeedDataRead(stream, pos))

CallTurboSpeedDataProcess ==
    Return("TurboSpeedDataProcess", TurboSpeedDataProcess(stream, pos))

CallStopTapeWhen48kModeRead ==
    Return("StopTapeWhen48kModeRead", StopTapeWhen48kModeRead(stream, pos))

CallSetSignalLevelProcess ==
    Return("SetSignalLevelProcess", SetSignalLevelProcess(stream, pos))

CallGroupStartRead ==
    Return("GroupStartRead", GroupStartRead(stream, pos))

CallGroupEndRead ==
    Return("GroupEndRead", GroupEndRead(stream, pos))

CallLoopStartRead ==
    Return("LoopStartRead", LoopStartRead(stream, pos))

CallLoopEndRead ==
    Return("LoopEndRead", LoopEndRead(stream, pos))

NextDecode ==
    \/ CallTurboSpeedDataRead
    \/ CallTurboSpeedDataProcess
    \/ CallStopTapeWhen48kModeRead
    \/ CallSetSignalLevelProcess
    \/ CallGroupStartRead
    \/ CallGroupEndRead
    \/ CallLoopStartRead
    \/ CallLoopEndRead

SpecDecode == InitDecode /\ [][NextDecode]_vars

(* ------------------------------- claims ------------------------------- *)

IsPrefix(a, b) == Len(a) <= Len(b) /\ SubSeq(b, 1, Len(a)) = a

\* the part of the file after the header
Body == SubSeq(stream, HeaderSize + 1, Len(stream))

\* signature, terminator and major version of the file are the supported ones
HeaderAccepted ==
    /\ Len(stream) >= HeaderSize
    /\ SubSeq(stream, 1, 7) = ZXTape
    /\ stream[8] = 26
    /\ stream[9] = 1

\* the tags the loop dispatched to a block's decode routine and appended
IsAppendedTag(t) == t.id \in KnownIds /\ t.id # ArchiveInfoId
AppendedTags == SelectSeq(tags, IsAppendedTag)

\* C1: for every 10-byte header NewReader returns a Reader without error if
\* and only if the signature is "ZXTape!", the terminator 0x1A and the major
\* version 1.
C1_ReaderIffHeaderValid ==
    (pc # "start" /\ Len(stream) >= HeaderSize)
        => ((pc # "rejected") <=> HeaderAccepted)

\* the tags C2 lists: 0x10-0x15, 0x18, 0x19, 0x20-0x28, 0x2a, 0x2b,
\* 0x30-0x33, 0x35, 0x5a
ListedTags ==
    (16 .. 21) \cup {24, 25} \cup (32 .. 40) \cup {42, 43} \cup (48 .. 51) \cup {53, 90}

\* C2: for a tag that is not listed readDataBlock returns an error without
\* constructing or reading a block, and ReadBlocks returns that error at once:
\* the cursor stays right after the tag, no block is appended for it, and it
\* is the last tag ever read.
C2_UnsupportedTagAborts ==
    /\ \A id \in 0 .. 255 :
          IF id \in ListedTags
          THEN id \in KnownIds
          ELSE LET r == readDataBlock(id, stream, pos)
               IN  r.err # Nil /\ r.pos = pos /\ r.blk = NoBlock
    /\ \A i \in 1 .. Len(tags) :
          tags[i].id \notin ListedTags
              => /\ i = Len(tags)
                 /\ pc = "failed"
                 /\ err # Nil
                 /\ pos = tags[i].at
    /\ pc = "failed" => (tags # <<>> /\ tags[Len(tags)].id \notin ListedTags)
    /\ Len(blocks) = Cardinality({i \in 1 .. Len(tags) : tags[i].id \in ListedTags \ {50}})

\* an unsupported tag met after a decoded block, with input left unread
C2_Witness ==
    /\ pc = "failed"
    /\ Len(blocks) = 1
    /\ Avail(stream, pos) > 0
    /\ tags[Len(tags)].id = 22

\* C3: ReadBlocks ends without error only at end-of-input on a tag read; when
\* the input ends inside a block ReadBlocks returns an error and the
\* truncated block is not appended. Stated: when ReadBlocks has returned
\* without error, every appended block found all the bytes its decode
\* routine asked for.
C3_TruncatedBlockNotAppended ==
    pc = "done"
        => \A i \in 1 .. Len(AppendedTags) :
              \A t \in {AppendedTags[i]} : readDataBlock(t.id, stream, t.at).full

\* a buffer that holds a whole turbo speed data block from index `from`:
\* 15 bytes of timings, the 3-byte length N, exactly N payload bytes
TurboDeclared(s, from) == s[from + 15] + 256 * s[from + 16] + 65536 * s[from + 17]
WholeTurbo(s, from) ==
    /\ Len(s) >= from + 17
    /\ Len(s) = from + 17 + TurboDeclared(s, from)
TurboPayload(s, from) == SubSeq(s, from + 18, Len(s))

\* C4: decoding a turbo speed data block that declares N and holds exactly N
\* payload bytes yields a record that retains those N bytes as its payload.
C4_PayloadRetained ==
    /\ (pc = "ret" /\ ret.routine = "TurboSpeedDataRead"
            /\ Len(stream) >= 1 /\ stream[1] = TurboSpeedDataId /\ WholeTurbo(stream, 2))
          => ret.blk.DataBlock = TurboPayload(stream, 2)
    /\ (pc = "ret" /\ ret.routine = "TurboSpeedDataProcess" /\ WholeTurbo(stream, 1))
          => ret.blk.Data = TurboPayload(stream, 1)

\* C5: no record of the block sequence is an archive-info record; every
\* archive tag the loop meets goes to the archive field, which is read from
\* right after the tag (readDataBlock reads nothing for 0x32), and the block
\* sequence grows by none for it.
C5_ArchiveKeptApart ==
    /\ \A i \in 1 .. Len(blocks) : blocks[i].Id # ArchiveInfoId
    /\ Len(blocks) = Len(tags) - Cardinality({i \in 1 .. Len(tags) : tags[i].id = ArchiveInfoId})
                               - (IF pc = "failed" THEN 1 ELSE 0)
    /\ archive.present <=> (\E i \in 1 .. Len(tags) : tags[i].id = ArchiveInfoId)
    /\ \A i \in 1 .. Len(tags) :
          (tags[i].id = ArchiveInfoId /\ \A j \in i + 1 .. Len(tags) : tags[j].id # ArchiveInfoId)
              => archive.at = tags[i].at
    /\ readDataBlock(ArchiveInfoId, stream, pos).pos = pos

\* an archive tag met after a decoded block, and the run ended cleanly
C5_Witness ==
    /\ pc = "done"
    /\ archive.present
    /\ Len(tags) >= 3
    /\ tags[1].id # ArchiveInfoId
    /\ tags[2].id = ArchiveInfoId
    /\ Len(blocks) = Len(tags) - 1

C6_Decoded ==
    /\ Len(blocks) = Len(AppendedTags)
    /\ \A i \in 1 .. Len(blocks) :
          \A t \in {AppendedTags[i]} :
              blocks[i] = readDataBlock(t.id, stream, t.at).blk

\* C6: the block sequence only ever grows at its end (each state's sequence
\* is a prefix of the next state's), its i-th record is the decode of the
\* i-th non-archive tag of the stream, and this still holds when ReadBlocks
\* has returned an error: the k records decoded before it are there, in
\* stream order and unchanged.
C6_AppendOnly ==
    [][IsPrefix(blocks, blocks')]_vars /\ []C6_Decoded

\* an error after two different blocks were decoded
C6_Witness ==
    /\ pc = "failed"
    /\ Len(blocks) = 2
    /\ blocks[1] # blocks[2]
    /\ C6_Decoded

\* C7: Stop Tape when in 48k Mode (0x2a) and Set Signal Level (0x2b) read the
\* 4-byte length L and then advance by exactly L further bytes, for every L.
C7_ExtensionLengthHonoured ==
    (/\ pc = "ret"
     /\ ret.routine \in {"StopTapeWhen48kModeRead", "SetSignalLevelProcess"}
     /\ Len(stream) >= 4
     /\ Len(stream) >= 4 + LittleEndian(SubSeq(stream, 1, 4)))
        => pos = 4 + LittleEndian(SubSeq(stream, 1, 4))

\* C8: blocks.TurboSpeedData.Read compares the first byte it reads with 0x11:
\* for any other byte it returns an error with one byte consumed and every
\* pulse and length field zero; for 0x11 it goes on to read the fields.
C8_TagChecked ==
    (pc = "ret" /\ ret.routine = "TurboSpeedDataRead" /\ Len(stream) >= 1)
        => IF stream[1] # 17
           THEN /\ ret.err # Nil
                /\ pos = 1
                /\ ret.blk = [ZeroTurboSpeedData EXCEPT !.BlockID = stream[1]]
           ELSE /\ ret.blk.BlockID = 17
                /\ pos = Min(Len(stream), 19 + ret.blk.Length)
                /\ Len(stream) >= 3
                      => ret.blk.PilotPulse = stream[2] + 256 * stream[3]
                /\ Len(stream) >= 16
                      => ret.blk.Pause = stream[15] + 256 * stream[16]

\* a wrong ID byte in front of a whole block: the error, one byte consumed
C8_Witness ==
    /\ pc = "ret"
    /\ ret.routine = "TurboSpeedDataRead"
    /\ Len(stream) > 19
    /\ stream[1] = 16
    /\ WholeTurbo(stream, 2)
    /\ pos = 1
    /\ ret.err # Nil

\* C9: the 3-byte length read in blocks.TurboSpeedData.Read is little-endian
\* and zero-extended: Length = b0 + 256*b1 + 65536*b2, below 2^24, with
\* exactly 3 bytes consumed for it; [0x10,0,0] gives 16 and [0xFF,0xFF,0xFF]
\* gives 0xFFFFFF.
C9_Length24 ==
    /\ (pc = "ret" /\ ret.routine = "TurboSpeedDataRead"
            /\ Len(stream) >= 19 /\ stream[1] = TurboSpeedDataId)
          => /\ ret.blk.Length = stream[17] + 256 * stream[18] + 65536 * stream[19]
             /\ ret.blk.Length < 16777216
             /\ pos = Min(Len(stream), 19 + ret.blk.Length)
    /\ ReadLength3(<<16, 0, 0>>, 0) = [val |-> 16, pos |-> 3, ok |-> TRUE]
    /\ ReadLength3(<<255, 255, 255>>, 0) = [val |-> 16777215, pos |-> 3, ok |-> TRUE]

\* a block whose length bytes are 0x10, 0xFF, 0x01 has been read
C9_Witness ==
    /\ pc = "ret"
    /\ ret.routine = "TurboSpeedDataRead"
    /\ Len(stream) >= 19
    /\ SubSeq(stream, 17, 19) = <<16, 255, 1>>
    /\ ret.blk.Length = 130832

BodyIsNoBodyTags == \A i \in 1 .. Len(Body) : Body[i] \in {GroupEndId, LoopEndId}

\* C10: a valid header followed by k >= 0 no-body tags (Group End, Loop End)
\* and end-of-input: ReadBlocks returns no error, the block sequence holds
\* exactly k records, one per tag, of the matching variant in stream order;
\* the Read of a no-body variant leaves the cursor where it was.
C10_NoBodyTags ==
    /\ (HeaderAccepted /\ BodyIsNoBodyTags)
          => /\ pc \in {"start", "ready", "done"}
             /\ err = Nil
             /\ pc # "start" => Len(blocks) = pos - HeaderSize
             /\ \A i \in 1 .. Len(blocks) : blocks[i] = [Id |-> Body[i]]
             /\ pc = "done" => Len(blocks) = Len(Body)
    /\ GroupEndRead(stream, pos).pos = pos
    /\ LoopEndRead(stream, pos).pos = pos

\* a Group End then a Loop End then end-of-input, read to the end
C10_Witness ==
    /\ pc = "done"
    /\ HeaderAccepted
    /\ Body = <<GroupEndId, LoopEndId>>
    /\ blocks = <<[Id |-> GroupEndId], [Id |-> LoopEndId]>>
    /\ err = Nil

\* C11: tape.TurboSpeedData.Process reads six 16-bit fields (PilotPulse,
\* SyncFirstPulse, SyncSecondPulse, ZeroBitPulse, OneBitPulse, PilotTone),
\* the 8-bit UsedBits, the 16-bit Pause, the 3-byte length N and N payload
\* bytes: on a whole block it consumes exactly 18 + N bytes after the tag and
\* every field holds the value found at its documented offset.
C11_ProcessLayout ==
    (pc = "ret" /\ ret.routine = "TurboSpeedDataProcess" /\ WholeTurbo(stream, 1))
        => /\ pos = 18 + TurboDeclared(stream, 1)
           /\ ret.blk.PilotPulse      = stream[1] + 256 * stream[2]
           /\ ret.blk.SyncFirstPulse  = stream[3] + 256 * stream[4]
           /\ ret.blk.SyncSecondPulse = stream[5] + 256 * stream[6]
           /\ ret.blk.ZeroBitPulse    = stream[7] + 256 * stream[8]
           /\ ret.blk.OneBitPulse     = stream[9] + 256 * stream[10]
           /\ ret.blk.PilotTone       = stream[11] + 256 * stream[12]
           /\ ret.blk.UsedBits        = stream[13]
           /\ ret.blk.Pause           = stream[14] + 256 * stream[15]
           /\ ret.blk.Length          = TurboDeclared(stream, 1)

\* NewReader or ReadBlocks has returned
Returned == pc \in {"rejected", "done", "failed"}

\* C12: ReadBlocks terminates on every finite input. Every turn of the loop
\* that goes round again has moved the cursor past at least the tag byte, so
\* the turns are no more than the bytes after the header; and the run ends,
\* at end-of-input on a tag read without error or with an error.
C12_Terminates ==
    /\ [][(pc = "ready" /\ pc' = "ready")
              => (pos' >= pos + 1 /\ Len(tags') = Len(tags) + 1)]_vars
    /\ [](pc \in {"ready", "done", "failed"}
            => (Len(tags) <= pos - HeaderSize /\ pos <= Len(stream)))
    /\ [](pc = "done" => (err = Nil /\ Avail(stream, pos) = 0))
    /\ [](pc = "failed" => err # Nil)
    /\ <>Returned

\* a body of two tags read to the end in two turns of the loop
C12_Witness ==
    /\ pc = "done"
    /\ Len(Body) = 2
    /\ Len(tags) = 2
    /\ pos = Len(stream)

====
